---- MODULE Spec2Model ----
(***************************************************************************)
(* Migration property tests (vitest + fast-check): four `it` blocks that   *)
(* sample a finite universe read from disk and run a per-element check     *)
(* against the Target Project tree.                                        *)
(*                                                                         *)
(* Strings are TLA+ strings; paths, imports, version specifiers and style  *)
(* sheets are handled character by character, as the code handles them.    *)
(***************************************************************************)
EXTENDS Integers, Sequences, FiniteSets, TLC

VARIABLES
    test,          \* which `it` block is executing: 1..4 (0: none)
    files,         \* the files on disk (absolute paths)
    dirs,          \* directories on disk that hold no file
    content,       \* text of each target component file
    sourcePackageJson, \* the parsed package.json of the Source Project
    targetPackageJson, \* the parsed package.json of the Target Project
    sourceAppCss,  \* text of src/App.css of the Source Project
    sourceIndexCss,\* text of src/index.css of the Source Project
    targetCss,     \* text of src/styles.css of the Target Project
    run,           \* which execution of the block is in progress: 1 or 2
    universe,      \* the values handed to fc.constantFrom in this execution
    verdicts,      \* the predicate handed to fc.property, as value |-> its verdict
    pc,            \* "start" | "sampling" | "done"
    draws,         \* predicate invocations completed in the current run
    outcome,       \* outcome[r] of execution r: "none" | "pass" | "fail" | "error"
    last,          \* the last predicate invocation: element, verdict, the
                   \* references it captured, the paths it probed
    version,       \* the string handed to isValidVersion
    accepted       \* its answer: "none" | "yes" | "no"

vars == <<test, files, dirs, content, sourcePackageJson, targetPackageJson, sourceAppCss,
          sourceIndexCss, targetCss, run, universe, verdicts, pc, draws,
          outcome, last, version, accepted>>

-----------------------------------------------------------------------------
(* String primitives (String.prototype.startsWith, endsWith, includes ...) *)

At(s, i) == SubSeq(s, i, i)

StartsWith(s, p) == Len(p) <= Len(s) /\ SubSeq(s, 1, Len(p)) = p

EndsWith(s, p) == Len(p) <= Len(s) /\ SubSeq(s, Len(s) - Len(p) + 1, Len(s)) = p

MatchesAt(s, i, p) == i + Len(p) - 1 <= Len(s) /\ SubSeq(s, i, i + Len(p) - 1) = p

Includes(s, p) == \E i \in 1..(Len(s) + 1) : MatchesAt(s, i, p)

\* String.prototype.replace with a string pattern: the first occurrence only
Replace(s, pat, rep) ==
    IF ~Includes(s, pat) THEN s
    ELSE LET i == CHOOSE k \in 1..(Len(s) + 1) :
                      /\ MatchesAt(s, k, pat)
                      /\ \A j \in 1..(k - 1) : ~MatchesAt(s, j, pat)
         IN SubSeq(s, 1, i - 1) \o rep \o SubSeq(s, i + Len(pat), Len(s))

-----------------------------------------------------------------------------
(* node:path (posix): join, normalize, relative, basename, extname         *)

RECURSIVE SplitFrom(_, _, _, _)
SplitFrom(s, i, cur, acc) ==
    IF i > Len(s) THEN Append(acc, cur)
    ELSE IF At(s, i) = "/" THEN SplitFrom(s, i + 1, "", Append(acc, cur))
    ELSE SplitFrom(s, i + 1, cur \o At(s, i), acc)

\* the segments between the separators, empty ones included
Split(s) == SplitFrom(s, 1, "", <<>>)

RECURSIVE NormalizeSegs(_, _, _, _)
\* normalizeString: drops "" and ".", resolves ".." against the segment before
NormalizeSegs(segs, i, out, allowAboveRoot) ==
    IF i > Len(segs) THEN out
    ELSE LET g == segs[i] IN
         IF g = "" \/ g = "." THEN NormalizeSegs(segs, i + 1, out, allowAboveRoot)
         ELSE IF g = ".." THEN
              IF Len(out) > 0 /\ out[Len(out)] # ".."
              THEN NormalizeSegs(segs, i + 1, SubSeq(out, 1, Len(out) - 1), allowAboveRoot)
              ELSE IF allowAboveRoot
                   THEN NormalizeSegs(segs, i + 1, Append(out, ".."), allowAboveRoot)
                   ELSE NormalizeSegs(segs, i + 1, out, allowAboveRoot)
         ELSE NormalizeSegs(segs, i + 1, Append(out, g), allowAboveRoot)

RECURSIVE Glue(_, _)
Glue(segs, i) ==
    IF i > Len(segs) THEN ""
    ELSE IF i = Len(segs) THEN segs[i]
    ELSE segs[i] \o "/" \o Glue(segs, i + 1)

Normalize(p) ==
    IF p = "" THEN "."
    ELSE LET isAbsolute == StartsWith(p, "/")
             trailing   == EndsWith(p, "/")
             body       == Glue(NormalizeSegs(Split(p), 1, <<>>, ~isAbsolute), 1)
             body1      == IF body = "" /\ ~isAbsolute THEN "." ELSE body
             body2      == IF body1 # "" /\ trailing THEN body1 \o "/" ELSE body1
         IN IF isAbsolute THEN "/" \o body2 ELSE body2

RECURSIVE JoinRaw(_, _)
JoinRaw(parts, i) ==
    IF i > Len(parts) THEN ""
    ELSE LET rest == JoinRaw(parts, i + 1) IN
         IF parts[i] = "" THEN rest
         ELSE IF rest = "" THEN parts[i]
         ELSE parts[i] \o "/" \o rest

\* path.join(...parts)
Join(parts) == LET joined == JoinRaw(parts, 1)
               IN IF joined = "" THEN "." ELSE Normalize(joined)

RECURSIVE CommonLen(_, _, _)
CommonLen(a, b, i) ==
    IF i > Len(a) \/ i > Len(b) \/ a[i] # b[i] THEN i - 1
    ELSE CommonLen(a, b, i + 1)

\* path.relative(from, to), both absolute
Relative(from, to) ==
    LET a == NormalizeSegs(Split(from), 1, <<>>, FALSE)
        b == NormalizeSegs(Split(to), 1, <<>>, FALSE)
        c == CommonLen(a, b, 1)
        ups == [k \in 1..(Len(a) - c) |-> ".."]
    IN Glue(ups \o SubSeq(b, c + 1, Len(b)), 1)

RECURSIVE StripTrailing(_)
StripTrailing(p) ==
    IF Len(p) > 1 /\ EndsWith(p, "/") THEN StripTrailing(SubSeq(p, 1, Len(p) - 1))
    ELSE p

\* path.basename(p)
Basename(p) == LET segs == Split(StripTrailing(p)) IN segs[Len(segs)]

\* path.extname(p): from the last dot of the basename, unless it leads it
Extname(p) ==
    LET b == Basename(p)
        dotsAt == {i \in 1..Len(b) : At(b, i) = "."}
    IN IF dotsAt = {} \/ b = ".." THEN ""
       ELSE LET d == CHOOSE i \in dotsAt : \A j \in dotsAt : j <= i
            IN IF d = 1 THEN "" ELSE SubSeq(b, d, Len(b))

-----------------------------------------------------------------------------
(* node:fs over the modelled disk                                          *)

IsFile(p) == p \in files

IsDirectory(p) ==
    \/ p = "/"
    \/ p \in dirs
    \/ \E f \in files \cup dirs : StartsWith(f, p \o "/")

\* fs.existsSync(p): a file or a directory; a trailing separator asks for a directory
existsSync(p) ==
    IF Len(p) > 1 /\ EndsWith(p, "/")
    THEN IsDirectory(StripTrailing(p))
    ELSE IsFile(p) \/ IsDirectory(p)

\* fs.readdirSync(dirPath): the names of the entries of the directory
readdirSync(dirPath) ==
    {Split(SubSeq(f, Len(dirPath) + 2, Len(f)))[1] :
        f \in {g \in files \cup dirs : StartsWith(g, dirPath \o "/")}}

RECURSIVE getAllFiles(_)
\* the recursive walk; the code's array is kept as the set of its elements
getAllFiles(dirPath) ==
    LET entries == {Join(<<dirPath, file>>) : file \in readdirSync(dirPath)}
    IN {p \in entries : ~IsDirectory(p)}
       \cup UNION {getAllFiles(p) : p \in {q \in entries : IsDirectory(q)}}

-----------------------------------------------------------------------------
(* Regular expressions of the tests, matched the way the engine matches    *)

Spaces == {" ", "\t", "\n", "\r"}
LineEnds == {"\n", "\r"}
Digits == {"0", "1", "2", "3", "4", "5", "6", "7", "8", "9"}
Letters == {"a", "b", "c", "d", "e", "f", "g", "h", "i", "j", "k", "l", "m",
            "n", "o", "p", "q", "r", "s", "t", "u", "v", "w", "x", "y", "z",
            "A", "B", "C", "D", "E", "F", "G", "H", "I", "J", "K", "L", "M",
            "N", "O", "P", "Q", "R", "S", "T", "U", "V", "W", "X", "Y", "Z"}
WordChars == Letters \cup Digits \cup {"_"}
Quotes == {"'", "\""}

RECURSIVE RunLen(_, _, _)
\* how many characters from position p on belong to the class
RunLen(s, p, class) ==
    IF p > Len(s) \/ At(s, p) \notin class THEN 0
    ELSE 1 + RunLen(s, p + 1, class)

RECURSIVE LineRun(_, _)
\* how many characters from position p on the dot matches
LineRun(s, p) ==
    IF p > Len(s) \/ At(s, p) \in LineEnds THEN 0
    ELSE 1 + LineRun(s, p + 1)

NoMatch == [ok |-> FALSE, cap |-> "", end |-> 0]

RECURSIVE ImpCapture(_, _, _)
\* (.+?)['"] : the shortest non-empty capture on the line that a quote follows
ImpCapture(s, p, m) ==
    IF m > LineRun(s, p) THEN NoMatch
    ELSE IF p + m <= Len(s) /\ At(s, p + m) \in Quotes
         THEN [ok |-> TRUE, cap |-> SubSeq(s, p, p + m - 1), end |-> p + m + 1]
         ELSE ImpCapture(s, p, m + 1)

\* \s+from\s+['"] : what follows either run is no space, so each run is taken whole
ImpFrom(s, p) ==
    LET w1 == RunLen(s, p, Spaces)
        q  == p + w1 + 4
        w2 == RunLen(s, q, Spaces)
    IN IF w1 >= 1 /\ MatchesAt(s, p + w1, "from") /\ w2 >= 1
          /\ q + w2 <= Len(s) /\ At(s, q + w2) \in Quotes
       THEN ImpCapture(s, q + w2 + 1, 1)
       ELSE NoMatch

RECURSIVE ImpLazy(_, _, _)
\* .*? : tries 0, 1, 2 ... characters of the line, the first that succeeds wins
ImpLazy(s, p, m) ==
    IF m > LineRun(s, p) THEN NoMatch
    ELSE LET r == ImpFrom(s, p + m)
         IN IF r.ok THEN r ELSE ImpLazy(s, p, m + 1)

RECURSIVE ImpSpaces(_, _, _)
\* import\s+ : the run is greedy and gives characters back one at a time
ImpSpaces(s, p, k) ==
    IF k < 1 THEN NoMatch
    ELSE LET r == ImpLazy(s, p + k, 0)
         IN IF r.ok THEN r ELSE ImpSpaces(s, p, k - 1)

\* importRegex = /import\s+.*?\s+from\s+['"](.+?)['"]/g tried at position i
ImportMatchAt(s, i) ==
    IF MatchesAt(s, i, "import") THEN ImpSpaces(s, i + 6, RunLen(s, i + 6, Spaces))
    ELSE NoMatch

RECURSIVE ExecImports(_, _, _)
\* the while loop over importRegex.exec(content): the captures, in order
ExecImports(s, i, imports) ==
    IF i > Len(s) THEN imports
    ELSE LET r == ImportMatchAt(s, i)
         IN IF r.ok THEN ExecImports(s, r.end, Append(imports, r.cap))
            ELSE ExecImports(s, i + 1, imports)

\* cssVariableRegex = /--([\w-]+)\s*:/g tried at position i
CssMatchAt(s, i) ==
    LET n == RunLen(s, i + 2, WordChars \cup {"-"})
        w == RunLen(s, i + 2 + n, Spaces)
    IN IF MatchesAt(s, i, "--") /\ n >= 1 /\ MatchesAt(s, i + 2 + n + w, ":")
       THEN [ok |-> TRUE, cap |-> SubSeq(s, i + 2, i + 1 + n), end |-> i + 2 + n + w + 1]
       ELSE NoMatch

RECURSIVE ExecCssVariables(_, _, _)
\* the while loop over cssVariableRegex.exec(sourceCss): the Set of the captures
ExecCssVariables(s, i, found) ==
    IF i > Len(s) THEN found
    ELSE LET r == CssMatchAt(s, i)
         IN IF r.ok THEN ExecCssVariables(s, r.end, found \cup {r.cap})
            ELSE ExecCssVariables(s, i + 1, found)

\* new RegExp(`--${cssVariable}\\s*:`, 'g').test(css)
VariablePatternTest(cssVariable, css) ==
    \E i \in 1..Len(css) :
        LET p == i + 2 + Len(cssVariable)
        IN /\ MatchesAt(css, i, "--" \o cssVariable)
           /\ MatchesAt(css, p + RunLen(css, p, Spaces), ":")

\* isValidVersion, had the expression been anchored at the end as well
isValidVersionToTheEnd(v) ==
    LET p1 == IF MatchesAt(v, 1, "^") \/ MatchesAt(v, 1, "~") THEN 2 ELSE 1
        d1 == RunLen(v, p1, Digits)
        p2 == p1 + d1 + 1
        d2 == RunLen(v, p2, Digits)
        p3 == p2 + d2 + 1
        d3 == RunLen(v, p3, Digits)
    IN /\ d1 >= 1 /\ MatchesAt(v, p1 + d1, ".")
       /\ d2 >= 1 /\ MatchesAt(v, p2 + d2, ".")
       /\ d3 >= 1 /\ p3 + d3 = Len(v) + 1

\* /^[\^~]?\d+\.\d+\.\d+/.test(v)
isValidVersion(v) ==
    LET p1 == IF MatchesAt(v, 1, "^") \/ MatchesAt(v, 1, "~") THEN 2 ELSE 1
        d1 == RunLen(v, p1, Digits)
        p2 == p1 + d1 + 1
        d2 == RunLen(v, p2, Digits)
        p3 == p2 + d2 + 1
        d3 == RunLen(v, p3, Digits)
    IN /\ d1 >= 1 /\ MatchesAt(v, p1 + d1, ".")
       /\ d2 >= 1 /\ MatchesAt(v, p2 + d2, ".")
       /\ d3 >= 1

-----------------------------------------------------------------------------
(* The layout the tests read                                               *)

\* __dirname of the test file, inside the Target Project
DirName == "/s/t/src"

sourceRoot == Join(<<DirName, "../../">>)
targetRoot == Join(<<DirName, "../">>)
sourceComponentsDir == Join(<<sourceRoot, "src/components">>)
targetComponentsDir == Join(<<targetRoot, "src/components">>)

\* a package.json: whether it has a `dependencies` key, and the mapping under it
PackageJson(deps) == [has |-> TRUE, dependencies |-> deps]
Absent == [has |-> FALSE, dependencies |-> [pkg \in {} |-> ""]]

\* `packageJson.dependencies || {}`
DependenciesOrEmpty(packageJson) ==
    IF packageJson.has THEN packageJson.dependencies ELSE [pkg \in {} |-> ""]

\* fc.assert(..., { numRuns: 100 })
NumRuns == 100

\* what one invocation of a predicate leaves behind
Verdict(ok, probes) == [ok |-> ok, probes |-> probes, imports |-> <<>>]

-----------------------------------------------------------------------------
(* Property 1: complete file migration                                     *)

sourceComponents ==
    IF existsSync(sourceComponentsDir) THEN getAllFiles(sourceComponentsDir) ELSE {}

allSourceFiles == sourceComponents

\* the predicate of Property 1 on one sampled source file
FileMigrated(sourceFilePath) ==
    IF Includes(sourceFilePath, "/src/components/")
    THEN LET relativePath == Relative(sourceComponentsDir, sourceFilePath)
             targetPath   == Join(<<targetRoot, "src/components", relativePath>>)
             found        == existsSync(targetPath)
         IN Verdict(/\ found
                    /\ Basename(targetPath) = Basename(sourceFilePath)
                    /\ Extname(targetPath) = Extname(sourceFilePath),
                    <<[ref |-> relativePath, kind |-> "file",
                       candidate |-> targetPath, exists |-> found]>>)
    ELSE Verdict(TRUE, <<>>)

-----------------------------------------------------------------------------
(* Property 2: import path consistency                                     *)

componentFiles ==
    IF existsSync(targetComponentsDir)
    THEN {f \in getAllFiles(targetComponentsDir) : EndsWith(f, ".tsx") \/ EndsWith(f, ".ts")}
    ELSE {}

\* Classify, had the alias marker been '@' instead of '@/'
ClassifyWide(importPath) ==
    IF ~StartsWith(importPath, ".") /\ ~StartsWith(importPath, "@") THEN "external"
    ELSE IF StartsWith(importPath, "@/assets") THEN "asset"
    ELSE IF StartsWith(importPath, "@") THEN "alias"
    ELSE "relative"

\* Classify, had the relative branch been left out
ClassifySkipsRelative(importPath) ==
    IF ~StartsWith(importPath, "@/") THEN "external"
    ELSE IF StartsWith(importPath, "@/assets") THEN "asset"
    ELSE "alias"

\* the branch of the forEach body an import reference takes
Classify(importPath) ==
    IF ~StartsWith(importPath, ".") /\ ~StartsWith(importPath, "@/") THEN "external"
    ELSE IF StartsWith(importPath, "@/assets") THEN "asset"
    ELSE IF StartsWith(importPath, "@/") THEN "alias"
    ELSE IF StartsWith(importPath, ".") THEN "relative"
    ELSE "external"

\* AliasExists, had the '.ts' place been left out
AliasExistsNoTs(fullPath) ==
    \/ existsSync(fullPath)
    \/ existsSync(fullPath \o ".tsx")
    \/ existsSync(Join(<<fullPath, "index.ts">>))
    \/ existsSync(Join(<<fullPath, "index.tsx">>))

\* `exists` of the alias branch
AliasExists(fullPath) ==
    \/ existsSync(fullPath)
    \/ existsSync(fullPath \o ".ts")
    \/ existsSync(fullPath \o ".tsx")
    \/ existsSync(Join(<<fullPath, "index.ts">>))
    \/ existsSync(Join(<<fullPath, "index.tsx">>))

\* `exists` of the relative branch
RelativeExists(resolvedPath) ==
    \/ existsSync(resolvedPath)
    \/ existsSync(resolvedPath \o ".ts")
    \/ existsSync(resolvedPath \o ".tsx")
    \/ existsSync(Join(<<resolvedPath, "index.ts">>))
    \/ existsSync(Join(<<resolvedPath, "index.tsx">>))

\* the candidate path of an alias reference
AliasCandidate(importPath) ==
    Join(<<targetRoot, Replace(importPath, "@/", "src/")>>)

\* RelativeCandidate, had the reference been resolved against targetRoot
RelativeCandidateFromRoot(componentFile, importPath) ==
    Join(<<targetRoot, importPath>>)

\* the candidate path of a relative reference
RelativeCandidate(componentFile, importPath) ==
    LET componentDir == Join(<<componentFile, "..">>)
    IN Join(<<componentDir, importPath>>)

RECURSIVE CheckImports(_, _, _, _)
\* imports.forEach(...): a failed expect throws and ends the loop
CheckImports(componentFile, imports, i, probes) ==
    IF i > Len(imports) THEN Verdict(TRUE, probes)
    ELSE LET importPath == imports[i]
             kind       == Classify(importPath)
         IN IF kind = "alias"
            THEN LET fullPath == AliasCandidate(importPath)
                     exists   == AliasExists(fullPath)
                     probe    == [ref |-> importPath, kind |-> kind,
                                  candidate |-> fullPath, exists |-> exists]
                 IN IF exists
                    THEN CheckImports(componentFile, imports, i + 1, Append(probes, probe))
                    ELSE Verdict(FALSE, Append(probes, probe))
            ELSE IF kind = "relative"
            THEN LET resolvedPath == RelativeCandidate(componentFile, importPath)
                     exists       == RelativeExists(resolvedPath)
                     probe        == [ref |-> importPath, kind |-> kind,
                                      candidate |-> resolvedPath, exists |-> exists]
                 IN IF exists
                    THEN CheckImports(componentFile, imports, i + 1, Append(probes, probe))
                    ELSE Verdict(FALSE, Append(probes, probe))
            ELSE CheckImports(componentFile, imports, i + 1, probes)

\* the predicate of Property 2 on one sampled component file
ImportsValid(componentFile) ==
    LET imports == ExecImports(content[componentFile], 1, <<>>)
    IN [CheckImports(componentFile, imports, 1, <<>>) EXCEPT !.imports = imports]

-----------------------------------------------------------------------------
(* Property 3: dependency completeness                                     *)

\* Object.keys(sourcePackageJson.dependencies || {}).filter(startsWith('@radix-ui/'))
sourceRadixPackages ==
    {pkg \in DOMAIN DependenciesOrEmpty(sourcePackageJson) : StartsWith(pkg, "@radix-ui/")}

\* DependencyPresent, had the two version specifiers been compared
DependencyPresentSameVersion(radixPackage) ==
    LET targetDeps    == DependenciesOrEmpty(targetPackageJson)
        present       == radixPackage \in DOMAIN targetDeps
        sourceVersion == sourcePackageJson.dependencies[radixPackage]
    IN Verdict(/\ present
               /\ isValidVersion(sourceVersion)
               /\ isValidVersion(targetDeps[radixPackage])
               /\ sourceVersion = targetDeps[radixPackage], <<>>)

\* the predicate of Property 3 on one sampled package name
DependencyPresent(radixPackage) ==
    LET targetDeps    == DependenciesOrEmpty(targetPackageJson)
        present       == radixPackage \in DOMAIN targetDeps
        sourceVersion == sourcePackageJson.dependencies[radixPackage]
    IN Verdict(/\ present
               /\ isValidVersion(sourceVersion)
               /\ isValidVersion(targetDeps[radixPackage]), <<>>)

-----------------------------------------------------------------------------
(* Property 4: CSS variable preservation                                   *)

sourceCss == sourceAppCss \o "\n" \o sourceIndexCss

sourceVariables == ExecCssVariables(sourceCss, 1, {})

sourceVariablesArray == sourceVariables

\* the predicate of Property 4 on one sampled custom-property name
VariablePreserved(cssVariable) ==
    Verdict(VariablePatternTest(cssVariable, targetCss), <<>>)

-----------------------------------------------------------------------------
(* The disks, manifests and style sheets the tests are run against         *)

RECURSIVE StringsOver(_, _)
\* every string of at most n characters of the alphabet
StringsOver(alphabet, n) ==
    IF n = 0 THEN {""}
    ELSE LET shorter == StringsOver(alphabet, n - 1)
         IN shorter \cup {s \o c : s \in shorter, c \in alphabet}

RECURSIVE TextsOf(_, _)
\* every text of at most n of the lines
TextsOf(lines, n) ==
    IF n = 0 THEN {""}
    ELSE LET shorter == TextsOf(lines, n - 1)
         IN shorter \cup {t \o l : t \in shorter, l \in lines}

MaxImports == 2
MaxVersionLen == 6

SourceA == "/s/src/components/a.tsx"
SourceB == "/s/src/components/ui/b.tsx"
TargetA == "/s/t/src/components/a.tsx"
TargetB == "/s/t/src/components/ui/b.tsx"
TargetBts == "/s/t/src/components/ui/b.ts"
TargetK == "/s/t/src/lib/k.ts"
TargetStyle == "/s/t/src/components/a.css"

ImportLines ==
    { "import b from './ui/b'\n",
      "import { k } from \"@/lib/k\"\n",
      "import l from '@/assets/l.png'\n",
      "import * as S from '@radix-ui/react-slot'\n",
      "import a from '../../../src/components/a'\n" }

\* the text of ui/b.tsx, when it is there
TextB == "import {\n  a\n} from '../a'\nimport { x } from '..'\n"

Packages == {"@radix-ui/react-dialog", "@radix-ui/react-slot", "react"}

VersionsOf(pkg) ==
    IF pkg = "@radix-ui/react-dialog" THEN {"^1.0.0", "^1.1.2", "latest"}
    ELSE IF pkg = "@radix-ui/react-slot" THEN {"~2.0.1"}
    ELSE {"^19.0.0"}

Manifests ==
    {Absent} \cup
    UNION {{PackageJson(m) : m \in {d \in [D -> UNION {VersionsOf(pkg) : pkg \in Packages}] :
                                       \A pkg \in D : d[pkg] \in VersionsOf(pkg)}} :
           D \in SUBSET Packages}

AppCssTexts == {"", ":root { --a: 1; }", "--b :2;\n--a:3;", ".x { color: var(--a) }\n--c"}
IndexCssTexts == {"", ": 4;", "--a: 5;"}
TargetCssTexts == {"", "--a: 1;", "---a: 1;", "--b--a: 1;", "--a:1; --b:2;", "--c\n:4; --b  :2"}

VersionAlphabet == {"^", "~", "1", ".", "b"}

NoVerdicts == [elem \in {} |-> Verdict(TRUE, <<>>)]

NoDraw == [drawn |-> FALSE, elem |-> "", ok |-> TRUE, probes |-> <<>>, imports |-> <<>>]

InitRun ==
    /\ run = 1
    /\ universe = {}
    /\ verdicts = NoVerdicts
    /\ pc = "start"
    /\ draws = 0
    /\ outcome = [r \in 1..2 |-> "none"]
    /\ last = NoDraw
    /\ version = ""
    /\ accepted = "none"

NoDisk == files = {} /\ dirs = {} /\ content = [f \in {} |-> ""]
NoManifests == sourcePackageJson = Absent /\ targetPackageJson = Absent
NoCss == sourceAppCss = "" /\ sourceIndexCss = "" /\ targetCss = ""

\* Property 1 is run: component files on both sides
InitFiles ==
    /\ test = 1
    /\ \E src \in SUBSET {SourceA, SourceB}, tgt \in SUBSET {TargetA, TargetB, TargetBts} :
           files = src \cup tgt
    /\ dirs \in SUBSET {sourceComponentsDir}
    /\ content = [f \in {} |-> ""]
    /\ NoManifests /\ NoCss

\* Property 2 is run: target component files with their imports
InitImports ==
    /\ test = 2
    /\ \E some \in SUBSET {TargetA, TargetB, TargetK, SourceA} :
           files = {TargetStyle} \cup some
    /\ dirs = {}
    /\ \E text \in TextsOf(ImportLines, MaxImports) :
           /\ TargetA \notin files => text = ""
           /\ content = [f \in {TargetA, TargetB} |-> IF f = TargetA THEN text ELSE TextB]
    /\ NoManifests /\ NoCss

\* Property 3 is run: the two manifests
InitManifests ==
    /\ test = 3
    /\ NoDisk /\ NoCss
    /\ sourcePackageJson \in Manifests
    /\ targetPackageJson \in Manifests

\* Property 4 is run: the style sheets
InitCss ==
    /\ test = 4
    /\ NoDisk /\ NoManifests
    /\ sourceAppCss \in AppCssTexts
    /\ sourceIndexCss \in IndexCssTexts
    /\ targetCss \in TargetCssTexts

Init == InitRun /\ (InitFiles \/ InitImports \/ InitManifests \/ InitCss)

-----------------------------------------------------------------------------
(* fc.assert(fc.property(fc.constantFrom(...universe), predicate))         *)

\* the universe the running test hands to fc.constantFrom
Universe ==
    CASE test = 1 -> allSourceFiles
      [] test = 2 -> componentFiles
      [] test = 3 -> sourceRadixPackages
      [] test = 4 -> sourceVariablesArray
      [] OTHER -> {}

\* the predicate of the running test
Predicate(elem) ==
    CASE test = 1 -> FileMigrated(elem)
      [] test = 2 -> ImportsValid(elem)
      [] test = 3 -> DependencyPresent(elem)
      [] test = 4 -> VariablePreserved(elem)

\* fc.constantFrom() without a value throws
ConstantFromThrows(values) == values = {}

\* the test body up to fc.assert: the universe is built and handed over
Start ==
    /\ pc = "start"
    /\ test \in 1..4
    /\ universe' = Universe
    /\ verdicts' = [elem \in universe' |-> Predicate(elem)]
    /\ IF ConstantFromThrows(universe')
       THEN /\ pc' = "done"
            /\ outcome' = [outcome EXCEPT ![run] = "error"]
       ELSE /\ pc' = "sampling"
            /\ UNCHANGED outcome
    /\ UNCHANGED <<test, files, dirs, content, sourcePackageJson, targetPackageJson, sourceAppCss,
                   sourceIndexCss, targetCss, run, draws, last, version, accepted>>

\* one run of the predicate on a drawn element; a failure ends the property,
\* the NumRuns-th success passes it. The predicate reads only the disk, the
\* manifests and the style sheets, which nothing changes: its verdict on a
\* value is the one tabulated when the property was built. After a failure
\* fast-check shrinks (it runs the predicate on further values of the
\* universe) and throws: the outcome is "fail" either way.
Draw ==
    /\ pc = "sampling"
    /\ draws < NumRuns
    /\ \E elem \in universe :
         LET v == verdicts[elem] IN
         /\ last' = [drawn |-> TRUE, elem |-> elem, ok |-> v.ok,
                      probes |-> v.probes, imports |-> v.imports]
         /\ IF ~v.ok
            THEN /\ outcome' = [outcome EXCEPT ![run] = "fail"]
                 /\ pc' = "done"
                 /\ UNCHANGED draws
            ELSE /\ draws' = draws + 1
                 /\ IF draws + 1 = NumRuns
                    THEN /\ outcome' = [outcome EXCEPT ![run] = "pass"]
                         /\ pc' = "done"
                    ELSE UNCHANGED <<outcome, pc>>
    /\ UNCHANGED <<test, files, dirs, content, sourcePackageJson, targetPackageJson, sourceAppCss,
                   sourceIndexCss, targetCss, run, universe, verdicts, version, accepted>>

\* the same test is run again, nothing on disk having changed
Rerun ==
    /\ pc = "done"
    /\ run = 1
    /\ run' = 2
    /\ pc' = "start"
    /\ draws' = 0
    /\ last' = NoDraw
    /\ universe' = {}
    /\ verdicts' = NoVerdicts
    /\ UNCHANGED <<test, files, dirs, content, sourcePackageJson, targetPackageJson, sourceAppCss,
                   sourceIndexCss, targetCss, outcome, version, accepted>>

Next == Start \/ Draw \/ Rerun

Spec == Init /\ [][Next]_vars

-----------------------------------------------------------------------------
(* isValidVersion on its own, over every short string                      *)

InitVersion ==
    /\ test = 0
    /\ NoDisk /\ NoManifests /\ NoCss
    /\ run = 1 /\ universe = {} /\ verdicts = NoVerdicts /\ pc = "done" /\ draws = 0
    /\ outcome = [r \in 1..2 |-> "none"]
    /\ last = NoDraw
    /\ version \in StringsOver(VersionAlphabet, MaxVersionLen)
    /\ accepted = "none"

CheckVersion ==
    /\ test = 0
    /\ accepted = "none"
    /\ accepted' = IF isValidVersion(version) THEN "yes" ELSE "no"
    /\ UNCHANGED <<test, files, dirs, content, sourcePackageJson, targetPackageJson, sourceAppCss,
                   sourceIndexCss, targetCss, run, universe, verdicts, pc, draws, outcome,
                   last, version>>

NextVersion == CheckVersion

SpecVersion == InitVersion /\ [][NextVersion]_vars

-----------------------------------------------------------------------------
(* Properties                                                              *)

\* the five places of the resolution fallback, spelled out on the path string
FiveRules(candidate) ==
    \/ existsSync(candidate)
    \/ existsSync(candidate \o ".ts")
    \/ existsSync(candidate \o ".tsx")
    \/ existsSync(candidate \o "/index.ts")
    \/ existsSync(candidate \o "/index.tsx")

UnderTargetRoot(p) == p = StripTrailing(targetRoot) \/ StartsWith(p, targetRoot)

\* C1: when Property 1 passes, every file under the source components
\* directory has its counterpart under the target components directory.
C1_CompleteMigration ==
    (test = 1 /\ \E r \in 1..2 : outcome[r] = "pass") =>
        \A f \in allSourceFiles :
            existsSync(Join(<<targetRoot, "src/components",
                              Relative(sourceComponentsDir, f)>>))

\* the references of the last sampled file that are alias or relative ones
AliasOrRelative(ref) == StartsWith(ref, "@/") \/ StartsWith(ref, ".")

\* ... and are not '@/assets' ones
AliasOrRelativeNoAsset(ref) == AliasOrRelative(ref) /\ ~StartsWith(ref, "@/assets")

\* the probes are those of the references `due`, in order, up to the first
\* that does not resolve; the file passes exactly when all of them resolve
CheckedAll(due) ==
    /\ Len(last.probes) <= Len(due)
    /\ \A i \in DOMAIN last.probes :
           /\ last.probes[i].ref = due[i]
           /\ last.probes[i].exists <=> FiveRules(last.probes[i].candidate)
           /\ i < Len(last.probes) => last.probes[i].exists
    /\ last.ok <=> /\ Len(last.probes) = Len(due)
                   /\ \A i \in DOMAIN last.probes : last.probes[i].exists

C3_DependencyCompleteness ==
    (test = 3 /\ last.drawn) =>
        LET source == sourcePackageJson.dependencies
            target == DependenciesOrEmpty(targetPackageJson)
            wellFormed == {"^1.0.0", "^1.1.2", "~2.0.1", "^19.0.0"}
        IN /\ last.ok => last.elem \in DOMAIN target
           /\ (/\ last.elem \in DOMAIN target
               /\ source[last.elem] \in wellFormed
               /\ target[last.elem] \in wellFormed) => last.ok

\* the dialog package passed with ^1.0.0 in the source and ^1.1.2 in the target
C3_Witness ==
    /\ test = 3 /\ last.drawn /\ last.ok
    /\ last.elem = "@radix-ui/react-dialog"
    /\ sourcePackageJson.dependencies[last.elem] = "^1.0.0"
    /\ targetPackageJson.dependencies[last.elem] = "^1.1.2"

AllDigits(v) == \A i \in 1..Len(v) : At(v, i) \in Digits

\* an optional caret or tilde, then three runs of digits separated by dots,
\* and nothing else
ExactForm(v) ==
    \E p \in 0..1, a \in 1..Len(v), b \in 1..Len(v) :
        /\ Len(v) >= p + a + 1 + b + 1 + 1
        /\ p = 1 => At(v, 1) \in {"^", "~"}
        /\ AllDigits(SubSeq(v, p + 1, p + a))
        /\ At(v, p + a + 1) = "."
        /\ AllDigits(SubSeq(v, p + a + 2, p + a + 1 + b))
        /\ At(v, p + a + b + 2) = "."
        /\ AllDigits(SubSeq(v, p + a + b + 3, Len(v)))

C5_ExactNamePreserved ==
    (test = 4 /\ last.drawn) =>
        (last.ok <=> last.elem \in ExecCssVariables(targetCss, 1, {}))

\* C6: a property whose universe is empty passes, with no sample drawn and no
\* error raised.
C6_VacuousPass ==
    (test \in 1..4 /\ pc = "done" /\ universe = {}) =>
        (outcome[run] = "pass" /\ draws = 0)

\* C7: two executions of a property against unchanged trees end the same way.
C7_SameOutcome ==
    (outcome[1] # "none" /\ outcome[2] # "none") => outcome[1] = outcome[2]

\* C8: a reference that starts with neither '.' nor '@/' is never probed on
\* disk and never makes Property 2 fail.
C8_ExternalExempt ==
    (test = 2 /\ last.drawn) =>
        /\ \A i \in DOMAIN last.probes :
               StartsWith(last.probes[i].ref, ".") \/ StartsWith(last.probes[i].ref, "@/")
        /\ ~last.ok =>
               /\ Len(last.probes) > 0
               /\ ~last.probes[Len(last.probes)].exists
        /\ (\A i \in DOMAIN last.imports :
               LET ref == last.imports[i]
               IN ~StartsWith(ref, ".") /\ ~StartsWith(ref, "@/")) => last.ok

\* a file importing the scoped package '@radix-ui/react-slot', of which the
\* disk holds nothing, passed
C8_Witness ==
    /\ test = 2 /\ last.drawn /\ last.ok
    /\ \E i \in DOMAIN last.imports :
           last.imports[i] = "@radix-ui/react-slot"
    /\ ~existsSync(Join(<<targetRoot, "@radix-ui/react-slot">>))
    /\ ~existsSync(Join(<<targetRoot, "node_modules/@radix-ui/react-slot">>))

DirSegs(file) ==
    LET segs == SelectSeq(Split(file), LAMBDA g : g # "")
    IN SubSeq(segs, 1, Len(segs) - 1)

RECURSIVE Walk(_, _, _)
\* the directory reached by following the segments of a reference
Walk(stack, refSegs, i) ==
    IF i > Len(refSegs) THEN stack
    ELSE IF refSegs[i] \in {"", "."} THEN Walk(stack, refSegs, i + 1)
    ELSE IF refSegs[i] = ".." THEN Walk(SubSeq(stack, 1, Len(stack) - 1), refSegs, i + 1)
    ELSE Walk(Append(stack, refSegs[i]), refSegs, i + 1)

RECURSIVE StaysBelow(_, _, _, _)
\* following the reference never climbs above the first `floor` segments
StaysBelow(depth, refSegs, i, floor) ==
    IF depth < floor THEN FALSE
    ELSE IF i > Len(refSegs) THEN TRUE
    ELSE IF refSegs[i] \in {"", "."} THEN StaysBelow(depth, refSegs, i + 1, floor)
    ELSE IF refSegs[i] = ".." THEN StaysBelow(depth - 1, refSegs, i + 1, floor)
    ELSE StaysBelow(depth + 1, refSegs, i + 1, floor)

TargetRootDepth == Len(SelectSeq(Split(targetRoot), LAMBDA g : g # ""))

====
